---- MODULE Spec2Model ----
(***************************************************************************)
(* Model of the search orchestration core of kite-public:                  *)
(* src/lib/services/search/SearchService.ts.                               *)
(*                                                                         *)
(* SearchService owns one SearchState record.  executeSearch starts a      *)
(* "generation": it launches a local search and, when eligible, a          *)
(* historical fetch, attaches a completion handler to each promise and     *)
(* then awaits both.  Every promise settlement is one step of the model:   *)
(* the handlers attached to the promise and the continuation of the        *)
(* awaiting async function run in the same microtask checkpoint, so no     *)
(* other call of the service can run between them.                         *)
(***************************************************************************)
EXTENDS Integers, Sequences, FiniteSets, TLC

\* ---------------------------------------------------------------- bounds
\* Number of generations (executeSearch calls that pass the empty check).
MaxGen == 2
\* Number of loadMoreResults calls that issue a fetch.
MaxMore == 1
\* Page fetches issued in one behaviour of the specification that looks at
\* the order of several pages.
MaxPages == 2
\* Longest historical page handed to combineResults when it is examined on
\* its own.
MaxHistorical == 3
\* Characters of text in the surface beyond which the user neither types
\* nor picks a suggestion.
MaxText == 27

\* ------------------------------------------------------------- constants
\* Page size imported from ./types (value not part of this source tree).
DEFAULT_SEARCH_LIMIT == 20

Gens == 1..MaxGen

\* A fetch that carries no signal: this.abortController?.signal is undefined
\* when abortController is null.
NoSignal == 0

VARIABLES
    state,              \* SearchService.state (the SearchState aggregate)
    abortController,    \* 0 = null, else the generation that created it
    aborted,            \* controllers whose signal is aborted
    requestId,          \* SearchService.requestId
    historicalSearch,   \* features.historicalSearch
    calls,              \* per generation: the executeSearch invocation
    more,               \* loadMoreResults invocations awaiting their fetch
    moreIssued,         \* number of loadMoreResults fetches issued so far
    cleared,            \* history: clear() ran and no input/search since
    lastOp,             \* history: "executeSearch" right after a call of
                        \* executeSearch, "handleChipDeletion" right
                        \* after one of handleChipDeletion, calls which
                        \* can leave everything as it was; "" otherwise
    emitted,            \* what the step just taken let out besides
                        \* SearchState: the console.error message it
                        \* wrote and whether it rejected the promise of
                        \* the call it belongs to
    chipService,        \* SearchService.chipService: whether it has an
                        \* element, that element's child nodes, the
                        \* selection the service or the typing left in
                        \* them, and appliedFilters
    noted,              \* history, kept where the claims look back: a set
                        \* of notes, one of each kind at most, on what the
                        \* latest generation ("search") and the latest page
                        \* fetch ("fetch") were requested with and on what
                        \* was under way when destroy() ran ("destroyed"),
                        \* and one for every generation whose
                        \* onSearchCancelled callback was invoked
    fn                  \* one application of a helper function examined on
                        \* its own: its arguments and its result

vars == <<state, abortController, aborted, requestId, historicalSearch,
          calls, more, moreIssued, cleared, lastOp, emitted, chipService,
          noted, fn>>

\* ------------------------------------------------------------ data model
\* SearchResult {story: {title}, batchId?}; batchId 0 stands for "absent".
Item(t, b) == [title |-> t, batchId |-> b]

\* String.prototype.toLowerCase on the titles the model uses.
toLowerCase(t) ==
    CASE t = "Alpha" -> "alpha"
      [] t = "Beta"  -> "beta"
      [] t = "Gamma" -> "gamma"
      [] OTHER       -> t

\* r.story.title?.toLowerCase()
LowerTitle(r) == toLowerCase(r.title)

\* The state literal of the field initialiser and of clear().
EmptyState ==
    [ query |-> "", filters |-> <<>>, results |-> <<>>,
      isLoading |-> FALSE, isLoadingMore |-> FALSE, hasMore |-> FALSE,
      selectedIndex |-> 0, totalCount |-> 0, currentOffset |-> 0,
      allHistoricalResults |-> <<>> ]

\* results.filter((r) => !r.batchId)
WithoutBatchId(rs) ==
    LET F[i \in 0..Len(rs)] ==
            IF i = 0 THEN <<>>
            ELSE IF rs[i].batchId = 0 THEN Append(F[i-1], rs[i]) ELSE F[i-1]
    IN F[Len(rs)]

\* filters.some((f) => f.isValid)
SomeValid(filters) == \E i \in 1..Len(filters) : filters[i].isValid

\* ------------------------------------------- SearchFilterService (parser)
\* Input text is a sequence of whitespace-separated tokens; a token is a
\* plain word (type "") or type:value.
Word(w) == [type |-> "", value |-> w]
Tok(t, v) == [type |-> t, value |-> v]

FilterTypes == {"category", "date", "from", "to"}
KnownCategories == {"tech", "us news"}

InputTexts ==
    { <<>>,
      <<Word("ai")>>,
      <<Word("news")>>,
      <<Tok("category", "tech")>>,
      <<Tok("category", "zzz")>> }

\* What the user types into the surface in one go.
TypedTexts == {"kite news ", "ca", "category:tech"}

\* The text a token contributes to the query when it is not extracted.
TokenText(tk) == IF tk.type = "" THEN tk.value ELSE tk.type \o ":" \o tk.value

IsFilterToken(tk) == tk.type \in FilterTypes

ToFilter(tk) ==
    [ type |-> tk.type, value |-> tk.value, display |-> tk.value,
      isValid |-> (tk.type = "category" => tk.value \in KnownCategories) ]

\* parseInput(text) -> {query, filters}: well-formed tokens of a known type
\* become filters, everything else stays in the query, single-spaced.
parseInput(text) ==
    LET Q[i \in 0..Len(text)] ==
            IF i = 0 THEN ""
            ELSE IF IsFilterToken(text[i]) THEN Q[i-1]
            ELSE IF Q[i-1] = "" THEN TokenText(text[i])
            ELSE Q[i-1] \o " " \o TokenText(text[i])
        Fl[i \in 0..Len(text)] ==
            IF i = 0 THEN <<>>
            ELSE IF IsFilterToken(text[i]) THEN Append(Fl[i-1], ToFilter(text[i]))
            ELSE Fl[i-1]
    IN [query |-> Q[Len(text)], filters |-> Fl[Len(text)]]

\* ------------------------------------------------- text (JavaScript strings)
Char(s, i) == SubSeq(s, i, i)

\* What String.prototype.trim() strips, as far as the surface contains it.
Whitespace == {" ", "\n"}

\* s.substring(from, to): both indices are clamped to the string.
substring(s, from, to) ==
    LET clamp(k) == IF k < 0 THEN 0 ELSE IF k > Len(s) THEN Len(s) ELSE k
        a == clamp(from)
        b == clamp(to)
    IN IF a <= b THEN SubSeq(s, a + 1, b) ELSE SubSeq(s, b + 1, a)

\* s.includes(c), c one character.
includes(s, c) == \E i \in 1..Len(s) : Char(s, i) = c

\* s.trim() is the empty string.
IsBlank(s) == \A i \in 1..Len(s) : Char(s, i) \in Whitespace

\* The 1-based position of the first c in s, 0 when there is none.
IndexOf(s, c) ==
    IF includes(s, c)
    THEN CHOOSE i \in 1..Len(s) :
            Char(s, i) = c /\ \A j \in 1..(i - 1) : Char(s, j) # c
    ELSE 0

\* The whitespace-separated pieces of a text; whitespace between double
\* quotes does not separate.
RawTokens(s) ==
    LET n == Len(s)
        quotesBefore(i) == Cardinality({j \in 1..(i - 1) : Char(s, j) = "\""})
        IsBreak(i) == Char(s, i) \in Whitespace /\ quotesBefore(i) % 2 = 0
        starts == {i \in 1..n :
                     ~IsBreak(i) /\ (IF i = 1 THEN TRUE ELSE IsBreak(i - 1))}
        EndOf(a) == CHOOSE b \in a..n :
                       /\ \A j \in a..b : ~IsBreak(j)
                       /\ (IF b = n THEN TRUE ELSE IsBreak(b + 1))
        Nth(k) == CHOOSE a \in starts : Cardinality({b \in starts : b <= a}) = k
    IN [k \in 1..Cardinality(starts) |-> SubSeq(s, Nth(k), EndOf(Nth(k)))]

\* One piece as a token: type:value or type:"quoted value" with a known
\* type is a filter token, anything else (unknown type, empty value,
\* unbalanced quotes) is a plain word.
Token(raw) ==
    LET k == IndexOf(raw, ":")
        type == SubSeq(raw, 1, k - 1)
        rest == SubSeq(raw, k + 1, Len(raw))
    IN IF k = 0 \/ type \notin FilterTypes \/ rest = "" THEN Word(raw)
       ELSE IF Char(rest, 1) = "\""
       THEN IF Len(rest) >= 2 /\ Char(rest, Len(rest)) = "\""
                 /\ ~includes(SubSeq(rest, 2, Len(rest) - 1), "\"")
            THEN Tok(type, SubSeq(rest, 2, Len(rest) - 1))
            ELSE Word(raw)
       ELSE IF includes(rest, "\"") THEN Word(raw)
       ELSE Tok(type, rest)

\* A text as the sequence of tokens parseInput works on.
Tokens(s) ==
    LET raw == RawTokens(s)
    IN [i \in 1..Len(raw) |-> Token(raw[i])]

\* The FilterContext value for "no context".
NoContext == [type |-> "", startIndex |-> 0, fullMatch |-> ""]

\* A proper, non-empty beginning of the name of a filter type.
IsTypePrefix(w) ==
    /\ w # ""
    /\ \E t \in FilterTypes : Len(w) < Len(t) /\ SubSeq(t, 1, Len(w)) = w

\* detectFilterContext(text, text.length): the piece the text ends with, when
\* it is type: or type:partial of a known type (a value context) or the
\* beginning of a filter name (type "suggestion"); startIndex is 0-based.
detectFilterContext(text) ==
    LET n == Len(text)
        breaks == {i \in 1..n : Char(text, i) \in Whitespace}
        start == IF breaks = {} THEN 0
                 ELSE CHOOSE i \in breaks : \A j \in breaks : j <= i
        word == SubSeq(text, start + 1, n)
        k == IndexOf(word, ":")
    IN IF word = "" THEN NoContext
       ELSE IF k > 0 /\ SubSeq(word, 1, k - 1) \in FilterTypes
                     /\ ~includes(word, "\"")
       THEN [type |-> SubSeq(word, 1, k - 1), startIndex |-> start,
             fullMatch |-> word]
       ELSE IF IsTypePrefix(word)
       THEN [type |-> "suggestion", startIndex |-> start, fullMatch |-> word]
       ELSE NoContext

\* getSuggestions(context): filter names for a "suggestion" context, the
\* catalog's categories for a category context.
Suggestion(value, display, isFilterType) ==
    [value |-> value, display |-> display, isFilterType |-> isFilterType]

getSuggestions(context) ==
    IF context.type = "suggestion"
    THEN { Suggestion(t \o ":", "", TRUE) :
             t \in {u \in FilterTypes :
                      SubSeq(u, 1, Len(context.fullMatch)) = context.fullMatch} }
    ELSE IF context.type = "category"
    THEN { Suggestion("tech", "Tech", FALSE),
           Suggestion("us news", "", FALSE) }
    ELSE {}

\* -------------------------------------------- ContentEditableChipService
\* The surface is the sequence of the element's child nodes.  A node is a
\* text node, a chip (span.filter-chip) or another element (a div the
\* browser made for a line) with child nodes of its own.
TextNode(t) ==
    [kind |-> "text", text |-> t, filter |-> "", type |-> "",
     display |-> "", children |-> <<>>]

\* createChip(type, filterText, displayValue)
createChip(type, filterText, displayValue) ==
    [kind |-> "chip", text |-> "", filter |-> filterText, type |-> type,
     display |-> displayValue, children |-> <<>>]

ElementNode(children) ==
    [kind |-> "element", text |-> "", filter |-> "", type |-> "",
     display |-> "", children |-> children]

\* HTMLElement.textContent of a chip: the text of the innerHTML template
\* createChip fills in, its line breaks and indentation included.
ChipTextContent(n) ==
    "\n      " \o n.type \o ":" \o "\n      " \o n.display \o "\n    "

\* Node.textContent of a text node or a chip.
LeafTextContent(n) ==
    IF n.kind = "text" THEN n.text
    ELSE IF n.kind = "chip" THEN ChipTextContent(n)
    ELSE ""

LeavesTextContent(ns) ==
    LET F[i \in 0..Len(ns)] ==
            IF i = 0 THEN "" ELSE F[i-1] \o LeafTextContent(ns[i])
    IN F[Len(ns)]

\* this.element.textContent
textContent(ns) ==
    LET F[i \in 0..Len(ns)] ==
            IF i = 0 THEN ""
            ELSE F[i-1] \o (IF ns[i].kind = "element"
                            THEN LeavesTextContent(ns[i].children)
                            ELSE LeafTextContent(ns[i]))
    IN F[Len(ns)]

\* getTextFromNode(node): the text nodes below node; chips are passed over.
getTextFromNode(n) ==
    LET cs == n.children
        F[i \in 0..Len(cs)] ==
            IF i = 0 THEN ""
            ELSE F[i-1] \o (IF cs[i].kind = "text" THEN cs[i].text ELSE "")
    IN F[Len(cs)]

\* The loop of getText() over the element's child nodes.
ChildNodesText(ns) ==
    LET F[i \in 0..Len(ns)] ==
            IF i = 0 THEN ""
            ELSE F[i-1] \o (IF ns[i].kind = "text" THEN ns[i].text
                            ELSE IF ns[i].kind = "chip" THEN ns[i].filter
                            ELSE getTextFromNode(ns[i]))
    IN F[Len(ns)]

\* getText()
getText(c) == IF ~c.attached THEN "" ELSE ChildNodesText(c.childNodes)

\* Node.normalize() on one list of siblings: empty text nodes go, adjacent
\* text nodes are merged.
NormalizeSiblings(ns) ==
    LET F[i \in 0..Len(ns)] ==
            IF i = 0 THEN <<>>
            ELSE LET p == F[i-1]
                     n == ns[i]
                 IN IF n.kind = "text" /\ n.text = "" THEN p
                    ELSE IF n.kind = "text" /\ p # <<>> /\ p[Len(p)].kind = "text"
                    THEN [p EXCEPT ![Len(p)].text = @ \o n.text]
                    ELSE Append(p, n)
    IN F[Len(ns)]

\* this.element.normalize()
normalize(ns) ==
    NormalizeSiblings(
        [i \in 1..Len(ns) |->
            IF ns[i].kind = "element"
            THEN [ns[i] EXCEPT !.children = NormalizeSiblings(@)]
            ELSE ns[i]])

\* The selection: the range's start container (child nodes[node], or its
\* child number child when child > 0; node 0 is the element itself), the
\* start offset, and whether the range is collapsed.
Range(node, child, offset, collapsed) ==
    [node |-> node, child |-> child, offset |-> offset, collapsed |-> collapsed]

\* selection.rangeCount === 0
NoRange == Range(-1, 0, 0, TRUE)

\* The range's start container, and the siblings it lives among.
SiblingsOf(c) ==
    IF c.selection.child > 0 THEN c.childNodes[c.selection.node].children
    ELSE c.childNodes

IndexAmongSiblings(c) ==
    IF c.selection.child > 0 THEN c.selection.child ELSE c.selection.node

\* Map: appliedFilters as the sequence of its entries in insertion order.
MapSet(m, key, value) ==
    IF \E i \in 1..Len(m) : m[i].key = key
    THEN [i \in 1..Len(m) |->
            IF m[i].key = key THEN [key |-> key, value |-> value] ELSE m[i]]
    ELSE Append(m, [key |-> key, value |-> value])

MapDelete(m, key) ==
    LET F[i \in 0..Len(m)] ==
            IF i = 0 THEN <<>>
            ELSE IF m[i].key = key THEN F[i-1] ELSE Append(F[i-1], m[i])
    IN F[Len(m)]

\* getAppliedFilters()
getAppliedFilters(c) ==
    [i \in 1..Len(c.appliedFilters) |-> c.appliedFilters[i].value]

\* The service after construction: no element, nothing tracked.
NoChipService ==
    [attached |-> FALSE, childNodes |-> <<>>, appliedFilters |-> <<>>,
     selection |-> NoRange]

\* ContentEditableChipService.clear()
ChipCleared(c) ==
    IF ~c.attached THEN c
    ELSE [c EXCEPT !.childNodes = <<>>, !.appliedFilters = <<>>,
                   !.selection = Range(0, 0, 0, TRUE)]

\* The selection once innerHTML = "" has removed the node it was in.
AfterEmptying(sel) == IF sel = NoRange THEN NoRange ELSE Range(0, 0, 0, TRUE)

\* setCursorPosition(offset) over the child nodes ns; sel is the selection
\* that stays when no text node is found.
setCursorPosition(ns, offset, sel) ==
    LET F[i \in 0..Len(ns)] ==
            IF i = 0 THEN [target |-> 0, currentOffset |-> 0]
            ELSE LET p == F[i-1]
                 IN IF p.target # 0 \/ ns[i].kind # "text" THEN p
                    ELSE IF p.currentOffset + Len(ns[i].text) >= offset
                    THEN [p EXCEPT !.target = i]
                    ELSE [p EXCEPT !.currentOffset = @ + Len(ns[i].text)]
        l == F[Len(ns)]
    IN IF l.target # 0
       THEN Range(l.target, 0, offset - l.currentOffset, TRUE)
       ELSE sel

\* Variant that leaves the caret on the chip itself.
setCursorOnChip(ns, k, sel) == Range(k, 0, 0, TRUE)

\* setCursorAfterChip(chip), chip being child number k of ns.
setCursorAfterChip(ns, k, sel) ==
    IF k < Len(ns) /\ ns[k + 1].kind = "text"
    THEN Range(k + 1, 0, 0, TRUE)
    ELSE sel

\* if (text) appendChild(createTextNode(text))
IfAny(text) == IF text # "" THEN <<TextNode(text)>> ELSE <<>>

\* replacePartialText(context, newText)
replacePartialText(c, context, newText) ==
    LET text == textContent(c.childNodes)
        beforeFilter == substring(text, 0, context.startIndex)
        afterFilter == substring(text, context.startIndex + Len(context.fullMatch),
                                 Len(text))
        ns == IfAny(beforeFilter) \o <<TextNode(newText)>> \o IfAny(afterFilter)
    IN [c EXCEPT !.childNodes = ns,
                 !.selection = setCursorPosition(ns, Len(beforeFilter) + Len(newText),
                                                 AfterEmptying(c.selection))]

\* suggestion.display || suggestion.value
DisplayOf(suggestion) ==
    IF suggestion.display # "" THEN suggestion.display ELSE suggestion.value

\* replacePartialTextWithChip(context, chip, suggestion)
replacePartialTextWithChip(c, context, chip, suggestion) ==
    LET text == textContent(c.childNodes)
        beforeFilter == substring(text, 0, context.startIndex)
        afterFilter == substring(text, context.startIndex + Len(context.fullMatch),
                                 Len(text))
        ns == IfAny(beforeFilter) \o <<chip, TextNode(" ")>>
              \o (IF ~IsBlank(afterFilter) THEN <<TextNode(afterFilter)>> ELSE <<>>)
    IN [c EXCEPT
          !.childNodes = ns,
          !.selection = setCursorAfterChip(ns, Len(IfAny(beforeFilter)) + 1,
                                           AfterEmptying(c.selection)),
          !.appliedFilters =
              IF context.type # "suggestion"
              THEN MapSet(@, chip.filter,
                          [type |-> context.type, value |-> suggestion.value,
                           display |-> DisplayOf(suggestion), isValid |-> TRUE])
              ELSE @]

\* The completed filter applyFilterSuggestion builds: type:value, the value
\* in double quotes when it includes a space.
CompletedFilter(type, value) ==
    type \o ":" \o (IF includes(value, " ") THEN "\"" \o value \o "\"" ELSE value)

\* ContentEditableChipService.applyFilterSuggestion(suggestion, context):
\* the service afterwards; it returns true exactly when an element is
\* attached.
applyFilterSuggestion(c, suggestion, context) ==
    IF ~c.attached THEN c
    ELSE IF suggestion.isFilterType
    THEN replacePartialText(c, context, suggestion.value)
    ELSE replacePartialTextWithChip(
             c, context,
             createChip(context.type, CompletedFilter(context.type, suggestion.value),
                        DisplayOf(suggestion)),
             suggestion)

\* Variant that does not look at range.collapsed.
AtChipAnyRange(c) ==
    /\ c.attached
    /\ c.selection # NoRange
    /\ c.selection.offset = 0
    /\ c.selection.node > 0
    /\ LET ns == SiblingsOf(c)
           k == IndexAmongSiblings(c)
       IN /\ ns[k].kind = "text"
          /\ k > 1
          /\ ns[k - 1].kind = "chip"

\* The condition under which handleBackspaceChipDeletion removes a chip:
\* an element, a collapsed range at offset 0 of a text node, and a chip as
\* that node's previous sibling.
AtChip(c) ==
    /\ c.attached
    /\ c.selection # NoRange
    /\ c.selection.collapsed
    /\ c.selection.offset = 0
    /\ c.selection.node > 0
    /\ LET ns == SiblingsOf(c)
           k == IndexAmongSiblings(c)
       IN /\ ns[k].kind = "text"
          /\ k > 1
          /\ ns[k - 1].kind = "chip"

\* The sequence without its element number k.
Without(ns, k) == SubSeq(ns, 1, k - 1) \o SubSeq(ns, k + 1, Len(ns))

\* Where a collapsed range at offset 0 of the text node numbered k among
\* the siblings ns is once the siblings are normalized: its new number and
\* offset.
AfterNormalize(ns, k) ==
    LET upTo == NormalizeSiblings(SubSeq(ns, 1, k))
    IN [index |-> Len(upTo),
        offset |-> IF upTo = <<>> THEN 0
                   ELSE Len(upTo[Len(upTo)].text) - Len(ns[k].text)]

\* handleBackspaceChipDeletion(event): what it returns and the service
\* afterwards.
handleBackspaceChipDeletion(c) ==
    IF ~AtChip(c) THEN [deleted |-> FALSE, filterText |-> "", service |-> c]
    ELSE
    LET sel == c.selection
        k == IndexAmongSiblings(c)
        element == SiblingsOf(c)[k - 1]
        filterText == element.filter
        siblings == Without(SiblingsOf(c), k - 1)
        removed == IF sel.child > 0
                   THEN [c.childNodes EXCEPT ![sel.node].children = siblings]
                   ELSE siblings
        at == AfterNormalize(siblings, k - 1)
        top == Len(NormalizeSiblings(SubSeq(removed, 1, sel.node)))
    IN [deleted |-> TRUE,
        filterText |-> filterText,
        service |->
          [c EXCEPT
             !.appliedFilters = MapDelete(@, filterText),
             !.childNodes = normalize(removed),
             !.selection = IF sel.child > 0
                           THEN Range(top, at.index, at.offset, TRUE)
                           ELSE Range(at.index, 0, at.offset, TRUE)]]

\* ------------------------------------------ SearchExecutorService (inputs)
\* What the executor can answer.  Local results come from the in-memory
\* corpus and carry no batchId; their titles are unique in the corpus.
LocalResultSets ==
    { <<>>,
      <<Item("Alpha", 0)>> }

\* One page of the historical endpoint; every item carries a batchId.
HistoricalPages ==
    { <<>>,
      <<Item("alpha", 1)>>,
      <<Item("Gamma", 1)>> }

\* An answer of the endpoint: a page, the total count and the has-more flag
\* (an empty page reports no further page).
HistoricalResponses ==
    { r \in { [ historicalResults |-> p, hasMore |-> h,
                historicalCount |-> IF h THEN Len(p) + DEFAULT_SEARCH_LIMIT
                                    ELSE Len(p) ]
              : p \in HistoricalPages, h \in BOOLEAN }
        : r.hasMore => Len(r.historicalResults) > 0 }

\* Pagination answers exclude the items the endpoint delivered before.
NotYetDelivered(page, delivered) ==
    \A i \in 1..Len(page) : \A j \in 1..Len(delivered) : page[i] # delivered[j]

\* Outcomes of a fetch that was given the signal sig.  A request whose signal
\* is aborted ends with the cancellation error (name AbortError); one without
\* an aborted signal answers or fails.
FetchOutcomes(sig) ==
    IF sig # NoSignal /\ sig \in aborted THEN {"abort"} ELSE {"ok", "fail"}

\* ------------------------------------------------------- SearchService
\* Options a caller passes to executeSearch.  Callers leave abortSignal to
\* the service, so every historical fetch of generation g carries the signal
\* of the controller created for g.
SearchOptionSets ==
    { [includeHistorical |-> TRUE],
      [includeHistorical |-> FALSE] }

\* An executeSearch invocation: where the async function is (pc), whether
\* its historical promise is unsettled (hist), and two pieces of history
\* kept while the generation is the current one: the local results its
\* handler applied (localResults, kept until the historical promise
\* settles) and whether it was started while the historical fetch of the
\* generation before it was unanswered (overtook).
\*   pc = "awaitLocal"  suspended at "await localPromise", which is pending
\*   pc = "awaitHist"   local answered; suspended at "await historicalPromise"
\*   pc = "threw"       local search threw; the function has rejected
\*   pc = "settled"     every promise has settled, nothing is left to run
NoCall ==
    [pc |-> "none", hist |-> "none", localResults |-> <<>>, overtook |-> FALSE]

\* A step that logs nothing and rejects nothing.
Quiet == [console |-> "", rejected |-> FALSE]

\* No helper function is being examined.
NoFn == [name |-> "", args |-> <<>>, result |-> <<>>, done |-> FALSE]

\* Nothing has been noted.
NoNotes == {}

Init ==
    /\ state = EmptyState
    /\ abortController = 0
    /\ aborted = {}
    /\ requestId = 0
    /\ historicalSearch \in BOOLEAN
    /\ calls = [g \in Gens |-> NoCall]
    /\ more = {}
    /\ moreIssued = 0
    /\ cleared = FALSE
    /\ lastOp = ""
    /\ emitted = Quiet
    /\ chipService = NoChipService
    /\ noted = NoNotes
    /\ fn = NoFn

\* Variant that compares titles as they are, without title.toLowerCase().
combineResultsCaseSensitive(localResults, historicalResults) ==
    LET n == Len(historicalResults)
        localTitles == {localResults[i].title : i \in 1..Len(localResults)}
        C[i \in 0..n] ==
            IF i = 0 THEN <<localResults, localTitles>>
            ELSE LET title == historicalResults[i].title
                 IN IF title # "" /\ title \notin C[i-1][2]
                    THEN <<Append(C[i-1][1], historicalResults[i]),
                           C[i-1][2] \cup {title}>>
                    ELSE C[i-1]
    IN C[n][1]

\* combineResults(localResults, historicalResults)
combineResults(localResults, historicalResults) ==
    LET n == Len(historicalResults)
        localTitles == {toLowerCase(localResults[i].title) : i \in 1..Len(localResults)}
        \* C[i] = <<combined, existingTitles>> after i historical results
        C[i \in 0..n] ==
            IF i = 0 THEN <<localResults, localTitles>>
            ELSE LET title == toLowerCase(historicalResults[i].title)
                 IN IF title # "" /\ title \notin C[i-1][2]
                    THEN <<Append(C[i-1][1], historicalResults[i]),
                           C[i-1][2] \cup {title}>>
                    ELSE C[i-1]
    IN C[n][1]

\* cancelActiveSearch(): abort the controller if there is one, drop it, and
\* clear isLoading.  Yields the new set of aborted controllers.
AbortedAfterCancel ==
    IF abortController # 0 /\ abortController \notin aborted
    THEN aborted \cup {abortController} ELSE aborted

\* History bookkeeping: the loadMoreResults fetches in flight when
\* cancelActiveSearch runs were issued before that cancellation.
Superseded(fs) == {[f EXCEPT !.superseded = TRUE] : f \in fs}

\* History bookkeeping: once results is assigned anew, no page that landed
\* ahead of a pending fetch is displayed any more.
NotOvertaken(fs) == {[f EXCEPT !.overtaken = FALSE] : f \in fs}

\* Variant of clear() that starts the generation ids over.
ClearResetsRequestId ==
    /\ aborted' = AbortedAfterCancel
    /\ abortController' = 0
    /\ state' = EmptyState
    /\ cleared' = TRUE
    /\ lastOp' = ""
    /\ emitted' = Quiet
    /\ more' = NotOvertaken(Superseded(more))
    /\ requestId' = 0
    /\ chipService' = ChipCleared(chipService)
    /\ UNCHANGED <<fn, noted, historicalSearch, calls, moreIssued>>

\* clear()
Clear ==
    /\ aborted' = AbortedAfterCancel
    /\ abortController' = 0
    /\ state' = EmptyState
    /\ cleared' = TRUE
    /\ lastOp' = ""
    /\ emitted' = Quiet
    /\ more' = NotOvertaken(Superseded(more))
    /\ chipService' = ChipCleared(chipService)
    /\ UNCHANGED <<fn, noted, requestId, historicalSearch, calls, moreIssued>>

\* The notes of one kind, and the notes of every other kind.
Notes(kind) == {n \in noted : n.kind = kind}

NotesBut(kind) == noted \ Notes(kind)

\* The generations whose onSearchCancelled callback was invoked.  No step
\* adds such a note: the body of executeSearch never refers to the
\* parameter.
onSearchCancelledFor == {n.gen : n \in Notes("onSearchCancelled")}

\* History bookkeeping at destroy(): the generations started so far and the
\* loadMoreResults fetches in flight were started before it.
NotedAtDestroy ==
    NotesBut("destroyed") \cup
        {[ kind |-> "destroyed", gens |-> 1..requestId,
           fetches |-> {f.n : f \in more} ]}

\* The generations and the fetches started before the latest destroy().
destroyedGens == UNION {n.gens : n \in Notes("destroyed")}

destroyedFetches == UNION {n.fetches : n \in Notes("destroyed")}

\* destroy(); noting tells whether the history is kept.
DestroyOf(noting) ==
    /\ aborted' = AbortedAfterCancel
    /\ abortController' = 0
    /\ state' = [state EXCEPT !.isLoading = FALSE]
    /\ lastOp' = ""
    /\ emitted' = Quiet
    /\ more' = Superseded(more)
    /\ noted' = IF noting THEN NotedAtDestroy ELSE noted
    /\ UNCHANGED <<fn, chipService, requestId, historicalSearch, calls, moreIssued, cleared>>

\* destroy()
Destroy == DestroyOf(FALSE)

\* The assignments of updateFromInput(inputText) to the state s.
updateFromInput(s, inputText) ==
    LET parsed == parseInput(inputText)
    IN [s EXCEPT !.query = parsed.query, !.filters = parsed.filters]

\* updateFromInput(inputText)
UpdateFromInput(inputText) ==
    /\ state' = updateFromInput(state, inputText)
    /\ cleared' = FALSE
    /\ lastOp' = ""
    /\ emitted' = Quiet
    /\ UNCHANGED <<fn, noted, chipService, abortController, aborted, requestId, historicalSearch,
                   calls, more, moreIssued>>

\* The body of navigateSelection(direction), as a function of the state.
Navigated(s, direction) ==
    IF Len(s.results) = 0 THEN s
    ELSE IF direction = "down"
    THEN [s EXCEPT !.selectedIndex = (s.selectedIndex + 1) % Len(s.results)]
    ELSE [s EXCEPT !.selectedIndex =
             IF s.selectedIndex = 0 THEN Len(s.results) - 1
             ELSE s.selectedIndex - 1]

\* navigateSelection(direction)
NavigateSelection(direction) ==
    /\ state' = Navigated(state, direction)
    /\ lastOp' = ""
    /\ emitted' = Quiet
    /\ UNCHANGED <<fn, noted, chipService, abortController, aborted, requestId, historicalSearch,
                   calls, more, moreIssued, cleared>>

\* executeSearch: "no query and no valid filters"
NoSearchNeeded ==
    state.query = "" /\ ~SomeValid(state.filters)

\* Variant of canSearchHistorical that looks at the query only.
canSearchHistoricalQueryOnly ==
    historicalSearch /\ Len(state.query) >= 3

\* executeSearch: canSearchHistorical
canSearchHistorical ==
    historicalSearch /\ (Len(state.query) >= 3 \/ Len(state.filters) > 0)

\* The guard of both completion handlers and of the catch block:
\* currentRequestId === this.requestId
IsCurrent(g) == g = requestId

\* An executeSearch invocation whose promises have all settled has nothing
\* left to run.
Settled == [NoCall EXCEPT !.pc = "settled"]

\* searchOptions = {limit: DEFAULT_SEARCH_LIMIT, offset: 0, ...options}: the
\* page size and the offset the two searches of executeSearch are given.
LimitOf(options) ==
    IF "limit" \in DOMAIN options THEN options.limit ELSE DEFAULT_SEARCH_LIMIT

OffsetOf(options) ==
    IF "offset" \in DOMAIN options THEN options.offset ELSE 0

\* History bookkeeping at executeSearch: what the generation started now
\* asks the executor for.
NotedAtSearch(options) ==
    NotesBut("search") \cup
        {[ kind |-> "search", query |-> state.query, filters |-> state.filters,
           offset |-> OffsetOf(options), limit |-> LimitOf(options) ]}

\* executeSearch(options), up to its first await; noting tells whether the
\* history is kept.
ExecuteSearchOf(options, noting) ==
    IF NoSearchNeeded
    THEN /\ state' = [state EXCEPT !.results = <<>>, !.hasMore = FALSE]
         /\ cleared' = FALSE
         /\ lastOp' = "executeSearch"
         /\ emitted' = Quiet
         /\ more' = NotOvertaken(more)
         /\ UNCHANGED <<fn, noted, chipService, abortController, aborted, requestId, historicalSearch,
                        calls, moreIssued>>
    ELSE LET g == requestId + 1
             startsHistorical == options.includeHistorical /\ canSearchHistorical
         IN
         /\ requestId < MaxGen
         /\ aborted' = AbortedAfterCancel
         /\ abortController' = g
         /\ requestId' = g
         /\ state' = [state EXCEPT !.isLoading = TRUE, !.currentOffset = 0,
                                   !.allHistoricalResults = <<>>]
         /\ calls' = [h \in Gens |->
                IF h = g
                THEN [ pc    |-> "awaitLocal",
                       hist  |-> IF startsHistorical THEN "pending" ELSE "none",
                       localResults |-> <<>>,
                       overtook |-> requestId > 0 /\ calls[requestId].hist = "pending" ]
                ELSE [calls[h] EXCEPT !.overtook = FALSE, !.localResults = <<>>]]
         /\ more' = Superseded(more)
         /\ cleared' = FALSE
         /\ lastOp' = "executeSearch"
         /\ emitted' = Quiet
         /\ noted' = IF noting THEN NotedAtSearch(options) ELSE noted
         /\ UNCHANGED <<fn, chipService, historicalSearch, moreIssued>>

\* executeSearch(options), up to its first await.
ExecuteSearch(options) == ExecuteSearchOf(options, FALSE)

\* The statements after the two awaits: isLoading = false; return results.
AfterAwaits(s) == [s EXCEPT !.isLoading = FALSE]

\* Variant of the catch block that also withdraws what is displayed.
CatchBlockClearsResults(s, g) ==
    IF IsCurrent(g)
    THEN [s EXCEPT !.isLoading = FALSE, !.results = <<>>, !.totalCount = 0]
    ELSE s

\* The catch block of executeSearch, entered by generation g.
CatchBlock(s, g) == IF IsCurrent(g) THEN [s EXCEPT !.isLoading = FALSE] ELSE s

\* What the catch block of executeSearch writes with console.error.  Only
\* errors other than AbortError reach it: the catch handlers on both awaits
\* swallow AbortError.
CatchBlockLogs(g) == IF IsCurrent(g) THEN "Search failed:" ELSE ""

\* Variant of the local handler that leaves totalCount for the historical
\* handler to set.
LocalHandlerNoCount(s, g, L) ==
    IF IsCurrent(g)
    THEN [s EXCEPT !.results = L, !.selectedIndex = 0, !.isLoading = FALSE]
    ELSE s

\* localPromise.then(...) of generation g with the executor's answer L.
LocalHandler(s, g, L) ==
    IF IsCurrent(g)
    THEN [s EXCEPT !.results = L, !.selectedIndex = 0, !.isLoading = FALSE,
                   !.totalCount = Len(L)]
    ELSE s

\* historicalPromise.then(...) of generation g with the executor's answer r.
HistoricalHandler(s, g, r) ==
    IF IsCurrent(g)
    THEN LET currentLocalResults == WithoutBatchId(s.results)
         IN [s EXCEPT !.allHistoricalResults = r.historicalResults,
                      !.results = combineResults(currentLocalResults,
                                                 r.historicalResults),
                      !.hasMore = r.hasMore,
                      !.totalCount = r.historicalCount,
                      !.currentOffset = 0]
    ELSE s

\* The local promise of generation g is fulfilled with L.  Its then-handler
\* runs, and the function, suspended at "await localPromise", goes on: to
\* the second await, or to the tail when there is no historical promise.
LocalAnswered(g, L) ==
    /\ calls[g].pc = "awaitLocal"
    /\ LET last == calls[g].hist = "none"
           s1 == LocalHandler(state, g, L)
       IN
       /\ state' = IF last THEN AfterAwaits(s1) ELSE s1
       /\ calls' = [calls EXCEPT ![g] =
                       [ (IF last THEN Settled ELSE [@ EXCEPT !.pc = "awaitHist"])
                         EXCEPT !.localResults = IF IsCurrent(g) THEN L ELSE <<>> ]]
    /\ more' = IF IsCurrent(g) THEN NotOvertaken(more) ELSE more
    /\ lastOp' = ""
    /\ emitted' = Quiet
    /\ UNCHANGED <<fn, noted, chipService, abortController, aborted, requestId, historicalSearch,
                   moreIssued, cleared>>

\* The local search of generation g throws: the function goes from
\* "await localPromise" to the catch block and rethrows.
LocalThrew(g) ==
    /\ calls[g].pc = "awaitLocal"
    /\ LET last == calls[g].hist = "none" IN
       /\ state' = CatchBlock(state, g)
       /\ calls' = [calls EXCEPT ![g] =
                       IF last THEN Settled ELSE [@ EXCEPT !.pc = "threw"]]
    /\ lastOp' = ""
    /\ emitted' = [console |-> CatchBlockLogs(g), rejected |-> TRUE]
    /\ UNCHANGED <<fn, noted, chipService, abortController, aborted, requestId, historicalSearch,
                   more, moreIssued, cleared>>

\* The local promise of generation g settles, one way or the other.
LocalDone(g) ==
    \/ \E L \in LocalResultSets : LocalAnswered(g, L)
    \/ LocalThrew(g)

\* The historical promise of generation g settles with the given outcome:
\* an answer, AbortError or another error (the local search, which
\* does not suspend, has settled before any network answer).  Its handler
\* runs; if the function is suspended at "await historicalPromise" it goes
\* on to the tail (answer or AbortError) or to the catch block (other error).
HistoricalSettled(g, outcome) ==
    /\ calls[g].hist = "pending"
    /\ calls[g].pc # "awaitLocal"
    /\ outcome \in FetchOutcomes(g)
    /\ LET awaiting == calls[g].pc = "awaitHist" IN
       \/ /\ outcome = "ok"
          /\ \E r \in HistoricalResponses :
               LET s1 == HistoricalHandler(state, g, r) IN
               state' = IF awaiting THEN AfterAwaits(s1) ELSE s1
          /\ emitted' = Quiet
       \/ /\ outcome = "abort"
          /\ state' = IF awaiting THEN AfterAwaits(state) ELSE state
          /\ emitted' = Quiet
       \/ /\ outcome = "fail"
          /\ state' = IF awaiting THEN CatchBlock(state, g) ELSE state
          /\ emitted' = IF awaiting
                        THEN [console |-> CatchBlockLogs(g), rejected |-> TRUE]
                        ELSE Quiet
    /\ more' = IF outcome = "ok" /\ IsCurrent(g) THEN NotOvertaken(more) ELSE more
    /\ lastOp' = ""
    /\ calls' = [calls EXCEPT ![g] = Settled]
    /\ UNCHANGED <<fn, noted, chipService, abortController, aborted, requestId, historicalSearch,
                   moreIssued, cleared>>

\* The historical promise of generation g settles, one way or another.
HistoricalDone(g) == \E outcome \in FetchOutcomes(g) : HistoricalSettled(g, outcome)

\* Variant of the guard that forgets hasMore.
LoadMoreBlockedLoadingOnly == state.isLoadingMore

\* loadMoreResults: "already loading or no more results"
LoadMoreBlocked == state.isLoadingMore \/ ~state.hasMore

\* History bookkeeping at loadMoreResults: what the fetch issued now asks
\* the executor for.
NotedAtFetch ==
    NotesBut("fetch") \cup
        {[ kind |-> "fetch", query |-> state.query, filters |-> state.filters,
           offset |-> state.currentOffset + DEFAULT_SEARCH_LIMIT,
           limit |-> DEFAULT_SEARCH_LIMIT ]}

\* loadMoreResults(), up to its await; at most limit fetches are issued in
\* one behaviour, and noting tells whether the history is kept.
LoadMoreResultsOf(limit, noting) ==
    IF LoadMoreBlocked
    THEN /\ lastOp' = ""
         /\ emitted' = Quiet
         /\ UNCHANGED <<fn, noted, chipService, state, abortController, aborted, requestId,
                        historicalSearch, calls, more, moreIssued, cleared>>
    ELSE /\ moreIssued < limit
         /\ moreIssued' = moreIssued + 1
         /\ state' = [state EXCEPT !.isLoadingMore = TRUE]
         /\ more' = more \cup
                {[ n |-> moreIssued + 1,
                   gen |-> requestId,
                   sig |-> abortController,
                   nextOffset |-> state.currentOffset + DEFAULT_SEARCH_LIMIT,
                   superseded |-> FALSE,
                   overtaken |-> FALSE ]}
         /\ lastOp' = ""
         /\ emitted' = Quiet
         /\ noted' = IF noting THEN NotedAtFetch ELSE noted
         /\ UNCHANGED <<fn, chipService, abortController, aborted, requestId, historicalSearch,
                        calls, cleared>>

\* loadMoreResults(), up to its await; at most limit fetches are issued in
\* one behaviour.
LoadMoreResultsWithin(limit) == LoadMoreResultsOf(limit, FALSE)

\* loadMoreResults()
LoadMoreResults == LoadMoreResultsWithin(MaxMore)

\* Variant that appends to results through combineResults.
AppendPageDeduplicated(s, f, r) ==
    [s EXCEPT !.allHistoricalResults = @ \o r.historicalResults,
              !.results = combineResults(@, r.historicalResults),
              !.currentOffset = f.nextOffset,
              !.hasMore = r.hasMore,
              !.totalCount = r.historicalCount]

\* The try body of loadMoreResults after the await, with the answer r.
AppendPage(s, f, r) ==
    [s EXCEPT !.allHistoricalResults = @ \o r.historicalResults,
              !.results = @ \o r.historicalResults,
              !.currentOffset = f.nextOffset,
              !.hasMore = r.hasMore,
              !.totalCount = r.historicalCount]

\* The pages the endpoint can answer the fetch f with: a page of items it
\* did not deliver before for the query of f.  For a fetch made before the
\* list was started anew, what the list now holds says nothing about that;
\* earlierList tells whether the answers to such a fetch are followed too.
DeliverableTo(f, page, earlierList) ==
    \/ earlierList /\ f.superseded
    \/ NotYetDelivered(page, state.allHistoricalResults)

\* History bookkeeping: when the page of f lands in results, the fetches
\* issued before f and still unanswered have been overtaken by it.
Overtaken(fs, f, landed) ==
    {[h EXCEPT !.overtaken = @ \/ (landed /\ h.n < f.n)] : h \in fs}

\* What the catch block of loadMoreResults writes with console.error for a
\* fetch that ended with the given error.
LoadMoreCatchLogs(outcome) == "Failed to load more results:"

\* The fetch of the loadMoreResults invocation f settles with the given
\* outcome: the page is appended, or the error is logged; finally
\* isLoadingMore = false.
MoreSettledOf(f, outcome, earlierList) ==
    /\ f \in more
    /\ outcome \in FetchOutcomes(f.sig)
    /\ \/ /\ outcome = "ok"
          /\ \E r \in HistoricalResponses :
               /\ DeliverableTo(f, r.historicalResults, earlierList)
               /\ state' = [AppendPage(state, f, r) EXCEPT !.isLoadingMore = FALSE]
          /\ emitted' = Quiet
       \/ /\ outcome # "ok"
          /\ state' = [state EXCEPT !.isLoadingMore = FALSE]
          /\ emitted' = [console |-> LoadMoreCatchLogs(outcome), rejected |-> FALSE]
    /\ more' = Overtaken(more \ {f}, f, state'.results # state.results)
    /\ lastOp' = ""
    /\ UNCHANGED <<fn, noted, chipService, abortController, aborted, requestId, historicalSearch,
                   calls, moreIssued, cleared>>

\* The same, the endpoint answering with items the list does not hold.
MoreSettled(f, outcome) == MoreSettledOf(f, outcome, FALSE)

\* The fetch of the loadMoreResults invocation f settles, one way or another.
MoreDone(f) == \E outcome \in FetchOutcomes(f.sig) : MoreSettled(f, outcome)

\* The same, a fetch made for an earlier list answering with any page.
PageSettled(f, outcome) == MoreSettledOf(f, outcome, TRUE)

\* The fetch f settles, one way or another, where several pages are looked
\* at.
PageDone(f) == \E outcome \in FetchOutcomes(f.sig) : PageSettled(f, outcome)

\* ------------------------------------------------ the chip editor, in use
\* initialize(element): the service is handed the surface element or null.
Initialize(element) ==
    /\ chipService' = [chipService EXCEPT !.attached = element]
    /\ lastOp' = ""
    /\ emitted' = Quiet
    /\ UNCHANGED <<fn, noted, state, abortController, aborted, requestId, historicalSearch,
                   calls, more, moreIssued, cleared>>

\* Text appended to the last text node of a list of siblings, or as a new
\* text node after a chip.
AppendText(ns, w) ==
    IF ns # <<>> /\ ns[Len(ns)].kind = "text"
    THEN [ns EXCEPT ![Len(ns)].text = @ \o w]
    ELSE Append(ns, TextNode(w))

\* The surface after the user typed w at its end.
TypedAtEnd(ns, w) ==
    IF ns # <<>> /\ ns[Len(ns)].kind = "element"
    THEN [ns EXCEPT ![Len(ns)].children = AppendText(@, w)]
    ELSE AppendText(ns, w)

\* The caret at the end of the surface.
AtEnd(ns) ==
    LET n == ns[Len(ns)]
    IN IF n.kind = "element"
       THEN Range(Len(ns), Len(n.children),
                  Len(n.children[Len(n.children)].text), TRUE)
       ELSE Range(Len(ns), 0, Len(n.text), TRUE)

\* The text is empty or ends in whitespace.
AtWordBoundary(text) ==
    IF text = "" THEN TRUE ELSE Char(text, Len(text)) \in Whitespace

\* The input handler after an edit that left the service as c:
\* updateFromInput with the text of the surface.
AfterInput(c) ==
    /\ chipService' = c
    /\ state' = updateFromInput(state, Tokens(getText(c)))
    /\ cleared' = FALSE
    /\ lastOp' = ""
    /\ emitted' = Quiet
    /\ UNCHANGED <<fn, noted, abortController, aborted, requestId, historicalSearch,
                   calls, more, moreIssued>>

\* The user types w, a word of its own, at the end of the surface.
TypeText(w) ==
    /\ chipService.attached
    /\ AtWordBoundary(ChildNodesText(chipService.childNodes))
    /\ Len(ChildNodesText(chipService.childNodes)) + Len(w) <= MaxText
    /\ AfterInput([chipService EXCEPT
                     !.childNodes = TypedAtEnd(@, w),
                     !.selection = AtEnd(TypedAtEnd(chipService.childNodes, w))])

\* The ranges the user can make in the node n, child number i (and j
\* below it): collapsed at offset 0, not collapsed, collapsed at offset 1.
NodeRanges(i, j, n) ==
    {Range(i, j, 0, TRUE), Range(i, j, 0, FALSE)}
    \cup (IF Len(n.text) >= 1 THEN {Range(i, j, 1, TRUE)} ELSE {})

\* The places the user can put the selection given the child nodes ns: no
\* range, the element itself, any text node or chip.
Ranges(ns) ==
    {NoRange, Range(0, 0, 0, TRUE)}
    \cup UNION { IF ns[i].kind = "element"
                 THEN UNION { NodeRanges(i, j, ns[i].children[j]) :
                                j \in 1..Len(ns[i].children) }
                 ELSE NodeRanges(i, 0, ns[i])
                 : i \in 1..Len(ns) }

\* The browser moves the child nodes from number i on into a div of their
\* own, as a line break in front of them does.
BreakLine(i) ==
    LET ns == chipService.childNodes
        sel == chipService.selection
    IN /\ chipService.attached
       /\ i \in 1..Len(ns)
       /\ \A k \in 1..Len(ns) : ns[k].kind # "element"
       /\ AfterInput([chipService EXCEPT
                        !.childNodes = SubSeq(ns, 1, i - 1)
                                       \o <<ElementNode(SubSeq(ns, i, Len(ns)))>>,
                        !.selection = IF sel.node >= i
                                      THEN Range(i, sel.node - i + 1, sel.offset,
                                                 sel.collapsed)
                                      ELSE sel])

\* SearchService.applyFilterSuggestion(suggestion, context)
ApplyFilterSuggestion(suggestion, context) ==
    LET success == chipService.attached
        applied == applyFilterSuggestion(chipService, suggestion, context)
        parsed == parseInput(Tokens(getText(applied)))
        appliedFilters == getAppliedFilters(applied)
    IN /\ chipService' = applied
       /\ state' = IF success
                   THEN [state EXCEPT
                           !.query = parsed.query,
                           !.filters = IF Len(appliedFilters) > 0
                                       THEN appliedFilters
                                       ELSE parsed.filters]
                   ELSE state
       /\ cleared' = FALSE
       /\ lastOp' = ""
       /\ emitted' = Quiet
       /\ UNCHANGED <<fn, noted, abortController, aborted, requestId, historicalSearch,
                      calls, more, moreIssued>>

\* The user picks one of the suggestions offered for the text of the
\* surface.
PickSuggestion ==
    /\ Len(ChildNodesText(chipService.childNodes)) <= MaxText
    /\ \E suggestion \in getSuggestions(detectFilterContext(getText(chipService))) :
          ApplyFilterSuggestion(suggestion, detectFilterContext(getText(chipService)))

\* `${f.type}:${f.value.includes(" ") ? `"${f.value}"` : f.value}`
FilterText(f) == CompletedFilter(f.type, f.value)

\* filters.filter((f) => FilterText(f) !== filterText)
FiltersWithout(filters, filterText) ==
    LET F[i \in 0..Len(filters)] ==
            IF i = 0 THEN <<>>
            ELSE IF FilterText(filters[i]) # filterText
            THEN Append(F[i-1], filters[i])
            ELSE F[i-1]
    IN F[Len(filters)]

\* SearchService.handleChipDeletion(event), r being the selection the user
\* made before the key press.
HandleChipDeletion(r) ==
    LET result == handleBackspaceChipDeletion(
                      [chipService EXCEPT !.selection = r])
        retracted == IF result.filterText # ""
                     THEN [state EXCEPT
                             !.filters = FiltersWithout(@, result.filterText)]
                     ELSE state
        newText == getText(result.service)
    IN /\ chipService' = IF result.deleted THEN result.service ELSE chipService
       /\ state' = IF result.deleted
                   THEN updateFromInput(retracted, Tokens(newText))
                   ELSE state
       /\ cleared' = IF result.deleted THEN FALSE ELSE cleared
       /\ lastOp' = "handleChipDeletion"
       /\ emitted' = Quiet
       /\ UNCHANGED <<fn, noted, abortController, aborted, requestId, historicalSearch,
                      calls, more, moreIssued>>

NextChip ==
    \/ \E element \in BOOLEAN : Initialize(element)
    \/ \E w \in TypedTexts : TypeText(w)
    \/ \E i \in 1..Len(chipService.childNodes) : BreakLine(i)
    \/ PickSuggestion
    \/ \E r \in Ranges(chipService.childNodes) : HandleChipDeletion(r)
    \/ Clear

\* Suggestions are offered only with the feature on.
InitChip == Init /\ historicalSearch

SpecChip == InitChip /\ [][NextChip]_vars

Next ==
    \/ \E t \in InputTexts : UpdateFromInput(t)
    \/ \E o \in SearchOptionSets : ExecuteSearch(o)
    \/ \E g \in Gens : LocalDone(g)
    \/ \E g \in Gens : HistoricalDone(g)
    \/ LoadMoreResults
    \/ \E f \in more : MoreDone(f)
    \/ \E d \in {"up", "down"} : NavigateSelection(d)
    \/ Clear
    \/ Destroy

Spec == Init /\ [][Next]_vars

\* The same operations with room for a second page fetch.
NextPages ==
    \/ \E t \in InputTexts : UpdateFromInput(t)
    \/ \E o \in SearchOptionSets : ExecuteSearch(o)
    \/ \E g \in Gens : LocalDone(g)
    \/ \E g \in Gens : HistoricalDone(g)
    \/ LoadMoreResultsWithin(MaxPages)
    \/ \E f \in more : PageDone(f)
    \/ \E d \in {"up", "down"} : NavigateSelection(d)
    \/ Clear
    \/ Destroy

SpecPages == Init /\ [][NextPages]_vars

\* Options that override the page size or the offset of the search.
NotedOptionSets ==
    SearchOptionSets \cup
        { [includeHistorical |-> TRUE, limit |-> 5],
          [includeHistorical |-> TRUE, offset |-> 40] }

\* What the user types between a search and the next page of it.
NotedInputTexts ==
    { <<Word("ai")>>,
      <<Word("news")>>,
      <<Tok("category", "tech")>> }

\* The service, with the history of its requests kept.
NextNoted ==
    \/ \E inputText \in NotedInputTexts : UpdateFromInput(inputText)
    \/ \E options \in NotedOptionSets : ExecuteSearchOf(options, TRUE)
    \/ \E g \in Gens : LocalDone(g)
    \/ \E g \in Gens : HistoricalDone(g)
    \/ LoadMoreResultsOf(MaxMore, TRUE)
    \/ \E f \in more : MoreDone(f)
    \/ \E direction \in {"up", "down"} : NavigateSelection(direction)
    \/ Clear
    \/ DestroyOf(TRUE)

SpecNoted == Init /\ [][NextNoted]_vars

TypeOK ==
    /\ requestId \in 0..MaxGen
    /\ abortController \in {0, requestId}
    /\ aborted \subseteq Gens
    /\ state.selectedIndex \in Nat
    /\ moreIssued \in 0..MaxMore
    /\ lastOp \in {"", "executeSearch"}

\* ------------------------------------------------------------ properties
\* Every promise of every executeSearch and loadMoreResults call has settled.
AllArrived ==
    /\ \A g \in Gens : calls[g].pc \in {"none", "settled"}
    /\ more = {}

\* A step taken on behalf of generation g: one of its promises settles.
CompletionOf(g) == LocalDone(g) \/ HistoricalDone(g)

\* C1 (as claimed): when generation N+1 was started before the historical
\* fetch of generation N had answered, the completions of N write none of
\* results, totalCount, hasMore, allHistoricalResults, currentOffset; and
\* when the historical answer of N+1 is applied as the last response to
\* arrive, results holds only results of generation N+1.
C1_StaleHandlersSilent ==
    [][\A g \in Gens : (g < requestId /\ CompletionOf(g)) =>
            /\ state'.results = state.results
            /\ state'.totalCount = state.totalCount
            /\ state'.hasMore = state.hasMore
            /\ state'.allHistoricalResults = state.allHistoricalResults
            /\ state'.currentOffset = state.currentOffset]_vars

C1_OnlyNewestResults ==
    [][\A g \in Gens :
         ( /\ g = requestId
           /\ calls[g].overtook
           /\ moreIssued = 0
           /\ HistoricalDone(g)
           /\ state'.allHistoricalResults # state.allHistoricalResults
           /\ AllArrived' )
         => \A i \in 1..Len(state'.results) :
               \/ \E j \in 1..Len(calls[g].localResults) :
                     state'.results[i] = calls[g].localResults[j]
               \/ \E j \in 1..Len(state'.allHistoricalResults) :
                     state'.results[i] = state'.allHistoricalResults[j]]_vars

\* C2 (as claimed): once generation N+1 has started, nothing that runs for a
\* generation <= N (handlers, the statements after the awaits, the catch
\* block) writes a field of SearchState, isLoading included.
C2_SupersededNeverWrites ==
    [][\A g \in Gens : (g < requestId /\ CompletionOf(g)) => state' = state]_vars

\* C3 (as claimed): every executeSearch call and every clear() call aborts
\* the controller in flight and makes requestId strictly greater.
C3_CallsCancelAndIncrement ==
    [][(Clear \/ lastOp' = "executeSearch") =>
            /\ requestId' > requestId
            /\ abortController # 0 => abortController \in aborted']_vars

\* C4 (as claimed): after clear() SearchState equals the initial empty state
\* and keeps that value until the next updateFromInput or executeSearch
\* call, whatever completions arrive in between.
C4_ClearedStaysEmpty == cleared => state = EmptyState

\* C5 (as claimed): the answer to a loadMoreResults fetch that arrives after
\* a later executeSearch generation started, or after clear() or destroy(),
\* appends nothing and leaves currentOffset, hasMore, totalCount alone.
C5_LateMoreIgnored ==
    [][\A f \in more : (f.superseded /\ MoreDone(f)) =>
            /\ state'.results = state.results
            /\ state'.allHistoricalResults = state.allHistoricalResults
            /\ state'.currentOffset = state.currentOffset
            /\ state'.hasMore = state.hasMore
            /\ state'.totalCount = state.totalCount]_vars

\* C6 (as claimed): selectedIndex is a valid index into results, and 0 when
\* results is empty.
C6_SelectedIndexValid ==
    IF Len(state.results) = 0 THEN state.selectedIndex = 0
    ELSE state.selectedIndex \in 0..(Len(state.results) - 1)

\* C7 (as claimed): no two entries of results have the same lower-cased title.
C7_TitlesUnique ==
    \A i, j \in 1..Len(state.results) :
        i # j => toLowerCase(state.results[i].title)
                    # toLowerCase(state.results[j].title)

\* C8 (as claimed): currentOffset changes only by a reset to 0 in clear() or
\* at the start of a search, or by growing by exactly DEFAULT_SEARCH_LIMIT
\* when a loadMoreResults fetch is answered.
C8_OffsetDiscipline ==
    [][state'.currentOffset # state.currentOffset =>
          \/ /\ state'.currentOffset = 0
             /\ Clear \/ lastOp' = "executeSearch"
          \/ /\ state'.currentOffset = state.currentOffset + DEFAULT_SEARCH_LIMIT
             /\ \E f \in more : MoreDone(f)]_vars

\* C9 (as claimed): executeSearch with an empty query and no valid filter
\* starts no search and no fetch, and isLoading is false when it returns.
C9_EmptySearchIdle ==
    [][( /\ state.query = ""
         /\ \A i \in 1..Len(state.filters) : ~state.filters[i].isValid
         /\ lastOp' = "executeSearch" ) =>
            /\ ~state'.isLoading
            /\ UNCHANGED <<calls, more, requestId, abortController>>]_vars

\* C10: a loadMoreResults call made while hasMore is false or isLoadingMore
\* is true issues no fetch and leaves every field of SearchState unchanged.
C10_BlockedLoadMoreIsNoOp ==
    [][(LoadMoreResults /\ (state.isLoadingMore \/ ~state.hasMore)) =>
            /\ state' = state
            /\ more' = more
            /\ moreIssued' = moreIssued]_vars

\* Reached: a search delivered a page and reported no further page, and
\* the loadMoreResults calls made since have issued no fetch.
C10_Witness ==
    /\ ~state.hasMore
    /\ ~state.isLoadingMore
    /\ Len(state.allHistoricalResults) > 0
    /\ more = {}
    /\ moreIssued = 0

\* ------------------------------------------- combineResults on its own
\* All sequences over S of length at most n.
SeqsUpTo(S, n) == UNION {[1..k -> S] : k \in 0..n}

\* Arguments combineResults is applied to: local results (no batchId, titles
\* unique, possibly a story without title) and a historical page whose
\* items may repeat a title, differ from one only in case, or have none.
\* The title "" stands for a missing (undefined) or empty title.
CombineLocalInputs ==
    { <<>>,
      <<Item("Alpha", 0)>>,
      <<Item("Beta", 0)>>,
      <<Item("", 0)>>,
      <<Item("Alpha", 0), Item("Beta", 0)>>,
      <<Item("Beta", 0), Item("Alpha", 0)>> }

CombineHistoricalInputs ==
    SeqsUpTo({Item("alpha", 1), Item("Gamma", 1), Item("gamma", 1), Item("", 1)},
             MaxHistorical)

InitCombine ==
    /\ state = EmptyState
    /\ abortController = 0
    /\ aborted = {}
    /\ requestId = 0
    /\ historicalSearch = TRUE
    /\ calls = [g \in Gens |-> NoCall]
    /\ more = {}
    /\ moreIssued = 0
    /\ cleared = FALSE
    /\ lastOp = ""
    /\ emitted = Quiet
    /\ chipService = NoChipService
    /\ noted = NoNotes
    /\ fn \in { [name |-> "combineResults", args |-> <<l, h>>,
                  result |-> <<>>, done |-> FALSE]
                : l \in CombineLocalInputs, h \in CombineHistoricalInputs }

\* combineResults is applied to the arguments.
ApplyCombine ==
    /\ fn.name = "combineResults"
    /\ ~fn.done
    /\ fn' = [fn EXCEPT !.result = combineResults(fn.args[1], fn.args[2]),
                        !.done = TRUE]
    /\ UNCHANGED <<state, chipService, noted, abortController, aborted, requestId,
                   historicalSearch, calls, more, moreIssued, cleared, lastOp,
                   emitted>>

NextCombine == ApplyCombine

SpecCombine == InitCombine /\ [][NextCombine]_vars

\* The subsequence of h made of the positions i with keep[i].
Selected(h, keep) ==
    LET F[i \in 0..Len(h)] ==
            IF i = 0 THEN <<>>
            ELSE IF keep[i] THEN Append(F[i-1], h[i]) ELSE F[i-1]
    IN F[Len(h)]

\* Position i of h is kept as the claim words it: its lower-cased title is
\* the lower-cased title of no local result and of no earlier kept one.
KeptAsClaimed(l, h) ==
    LET K[i \in 1..Len(h)] ==
            /\ \A j \in 1..Len(l) : LowerTitle(l[j]) # LowerTitle(h[i])
            /\ \A k \in 1..(i-1) : K[k] => LowerTitle(h[k]) # LowerTitle(h[i])
    IN K

\* As above, and the result has a title.
KeptWithTitle(l, h) ==
    LET K[i \in 1..Len(h)] ==
            /\ h[i].title # ""
            /\ \A j \in 1..Len(l) : LowerTitle(l[j]) # LowerTitle(h[i])
            /\ \A k \in 1..(i-1) : K[k] => LowerTitle(h[k]) # LowerTitle(h[i])
    IN K

\* C11 (as claimed): combineResults returns the local results in order,
\* followed by exactly the historical results, in order, whose lower-cased
\* title is that of no local result and of no earlier kept historical one.
C11_CombineAsClaimed ==
    (fn.name = "combineResults" /\ fn.done) =>
        fn.result = fn.args[1] \o
                    Selected(fn.args[2], KeptAsClaimed(fn.args[1], fn.args[2]))

\* C11 (amended): combineResults returns the local results in order,
\* followed by exactly the historical results, in order, that have a
\* non-empty title whose lower-cased form is that of no local result and of
\* no earlier kept historical one; a local "Alpha" and a historical "alpha"
\* give one entry, the local one, before every historical entry.
C11_CombineKeepsTitled ==
    (fn.name = "combineResults" /\ fn.done) =>
        fn.result = fn.args[1] \o
                    Selected(fn.args[2], KeptWithTitle(fn.args[1], fn.args[2]))

\* Reached: local "Alpha" combined with the page ("alpha", "Gamma").
C11_Witness ==
    /\ fn.done
    /\ fn.args = << <<Item("Alpha", 0)>>, <<Item("alpha", 1), Item("Gamma", 1)>> >>
    /\ fn.result = <<Item("Alpha", 0), Item("Gamma", 1)>>

\* ------------------------------------------- completions of a generation
\* The step applies the answer r to the historical fetch of generation g,
\* the current one, whose local results have been applied.
HistoricalApplied(g, r) ==
    /\ IsCurrent(g)
    /\ calls[g].pc = "awaitHist"
    /\ "ok" \in FetchOutcomes(g)
    /\ HistoricalDone(g)
    /\ state' = AfterAwaits(HistoricalHandler(state, g, r))

\* C12 (as claimed): when the historical answer of the current generation
\* is applied, the page is added to allHistoricalResults, results becomes
\* combineResults(L, allHistoricalResults) with L the local results of that
\* generation, and hasMore and totalCount take the values of the answer.
C12_HistoricalCompletion ==
    [][\A g \in Gens : \A r \in HistoricalResponses :
         HistoricalApplied(g, r) =>
            /\ state'.allHistoricalResults =
                   state.allHistoricalResults \o r.historicalResults
            /\ state'.results = combineResults(calls[g].localResults,
                                               state'.allHistoricalResults)
            /\ state'.hasMore = r.hasMore
            /\ state'.totalCount = r.historicalCount]_vars

\* The step applies the answer L of the local search of generation g, the
\* current one.
LocalApplied(g, L) ==
    /\ IsCurrent(g)
    /\ LocalAnswered(g, L)

\* C13: when the local answer of the current generation arrives, results is
\* set to exactly the local results and totalCount to their count, whether
\* or not the historical fetch of the generation has answered, and also
\* when that fetch fails later or never answers.
C13_LocalAppliedAtOnce ==
    [][\A g \in Gens : \A L \in LocalResultSets :
         LocalApplied(g, L) =>
            /\ state'.results = L
            /\ state'.totalCount = Len(L)]_vars

\* Reached: the local results are shown while the historical fetch of the
\* same generation is still unanswered.
C13_Witness ==
    /\ requestId > 0
    /\ calls[requestId].pc = "awaitHist"
    /\ calls[requestId].hist = "pending"
    /\ calls[requestId].localResults = <<Item("Alpha", 0)>>
    /\ state.results = <<Item("Alpha", 0)>>
    /\ state.totalCount = 1


\* C14 (as claimed): within a generation the local answer is applied before
\* the historical one, so when the historical answer of the current
\* generation is applied after its local answer, both having succeeded,
\* results equals combineResults(local results, historical results) of
\* that generation.
C14_BothPhasesCombined ==
    [][\A g \in Gens : \A r \in HistoricalResponses :
         HistoricalApplied(g, r) =>
            state'.results = combineResults(calls[g].localResults,
                                            r.historicalResults)]_vars

\* ------------------------------------------------------------ pagination
\* C15: a loadMoreResults call made with hasMore true and isLoadingMore
\* false issues exactly one fetch, at offset currentOffset + page size; when
\* its fetch is answered, the page is appended as it is at the tail of both
\* allHistoricalResults and results, currentOffset becomes the offset that
\* was fetched, hasMore and totalCount are those of the answer, and
\* isLoadingMore is false.
C15_LoadMoreAppends ==
    [][ /\ (LoadMoreResults /\ state.hasMore /\ ~state.isLoadingMore) =>
             /\ \E f \in more' \ more :
                  /\ more' = more \cup {f}
                  /\ f.nextOffset = state.currentOffset + DEFAULT_SEARCH_LIMIT
             /\ state' = [state EXCEPT !.isLoadingMore = TRUE]
        /\ \A f \in more :
             MoreSettled(f, "ok") =>
                \E r \in HistoricalResponses :
                   /\ state'.allHistoricalResults =
                          state.allHistoricalResults \o r.historicalResults
                   /\ state'.results = state.results \o r.historicalResults
                   /\ state'.currentOffset = f.nextOffset
                   /\ state'.hasMore = r.hasMore
                   /\ state'.totalCount = r.historicalCount
                   /\ ~state'.isLoadingMore ]_vars

\* Reached: a second page was appended after a first page and a local
\* result, the page repeating the title of the local result.
C15_Witness ==
    /\ more = {}
    /\ moreIssued > 0
    /\ state.currentOffset = DEFAULT_SEARCH_LIMIT
    /\ ~state.isLoadingMore
    /\ state.allHistoricalResults = <<Item("Gamma", 1), Item("alpha", 1)>>
    /\ state.results = <<Item("Alpha", 0), Item("Gamma", 1), Item("alpha", 1)>>

\* ------------------------------------------------------- error handling
\* C16: when the historical fetch of the current generation fails (not a
\* cancellation) after its local answer was applied, results, totalCount and
\* selectedIndex stay as they are and isLoading becomes false; and when the
\* local search of the current generation threw, the historical answer of
\* that generation is applied all the same: the page becomes
\* allHistoricalResults, every result of the page is represented in results
\* by an entry of the same lower-cased title, hasMore and totalCount are
\* those of the answer.
C16_PartialFailureTolerated ==
    [][\A g \in Gens :
         /\ ( /\ IsCurrent(g)
              /\ calls[g].pc = "awaitHist"
              /\ HistoricalSettled(g, "fail") ) =>
                /\ state'.results = state.results
                /\ state'.totalCount = state.totalCount
                /\ state'.selectedIndex = state.selectedIndex
                /\ ~state'.isLoading
         /\ ( /\ IsCurrent(g)
              /\ calls[g].pc = "threw"
              /\ HistoricalSettled(g, "ok") ) =>
                \E r \in HistoricalResponses :
                   /\ state'.allHistoricalResults = r.historicalResults
                   /\ state'.hasMore = r.hasMore
                   /\ state'.totalCount = r.historicalCount
                   /\ \A i \in 1..Len(r.historicalResults) :
                        \E j \in 1..Len(state'.results) :
                           LowerTitle(state'.results[j])
                              = LowerTitle(r.historicalResults[i]) ]_vars

\* Reached: the historical fetch of the first generation has just failed
\* (the failure was logged and rethrown) and the local result of that
\* generation is still displayed.
C16_Witness ==
    /\ emitted = [console |-> "Search failed:", rejected |-> TRUE]
    /\ requestId = 1
    /\ calls[requestId].pc = "settled"
    /\ state.results = <<Item("Alpha", 0)>>
    /\ state.totalCount = 1
    /\ ~state.isLoading

\* C17 (as claimed): a fetch that ends with AbortError, in executeSearch or
\* in loadMoreResults, logs nothing and rejects no promise; only errors
\* other than AbortError are logged or rethrown.
C17_CancellationSilent ==
    [][ /\ ( \/ \E g \in Gens : HistoricalSettled(g, "abort")
              \/ \E f \in more : MoreSettled(f, "abort") ) =>
              emitted' = Quiet
        /\ emitted' # Quiet =>
              \/ \E g \in Gens : LocalThrew(g) \/ HistoricalSettled(g, "fail")
              \/ \E f \in more : MoreSettled(f, "fail") ]_vars

\* The step is an executeSearch call that issued a historical fetch for the
\* generation it started.
IssuesHistorical ==
    /\ requestId' # requestId
    /\ calls'[requestId'].hist = "pending"

\* The step started a generation whose only phase is the local one.
LocalPhaseOnly ==
    /\ requestId' # requestId
    /\ calls'[requestId'].pc = "awaitLocal"
    /\ calls'[requestId'].hist = "none"

\* The eligibility condition in the words of the specification.
EligibleAsClaimed(o) ==
    /\ historicalSearch
    /\ o.includeHistorical
    /\ (Len(state.query) >= 3 \/ Len(state.filters) > 0)

\* C18 (as claimed): executeSearch issues a historical fetch if and only if
\* the feature flag is enabled, options.includeHistorical is not false, and
\* the query has at least 3 characters or at least one filter is present.
C18_EligibilityAsClaimed ==
    [][ \A o \in SearchOptionSets :
          ExecuteSearch(o) => (IssuesHistorical <=> EligibleAsClaimed(o)) ]_vars

\* C18 (amended): an executeSearch call that does not return early (the
\* query is non-empty or some filter is valid) issues a historical fetch if
\* and only if the feature flag is enabled, options.includeHistorical is
\* not false, and the query has at least 3 characters or at least one
\* filter is present; a call that returns early issues none; a query of 1
\* or 2 characters with no filter runs the local phase only.
C18_Eligibility ==
    [][ \A o \in SearchOptionSets :
          ExecuteSearch(o) =>
            /\ IssuesHistorical <=>
                  /\ state.query # "" \/ SomeValid(state.filters)
                  /\ EligibleAsClaimed(o)
            /\ (Len(state.query) \in {1, 2} /\ Len(state.filters) = 0) =>
                  LocalPhaseOnly ]_vars

\* A historical fetch was issued for a query shorter than 3 characters,
\* on the strength of a filter.
C18_Witness ==
    /\ lastOp = "executeSearch"
    /\ requestId > 0
    /\ calls[requestId].pc = "awaitLocal"
    /\ calls[requestId].hist = "pending"
    /\ Len(state.query) < 3
    /\ Len(state.filters) > 0

\* k consecutive navigateSelection('down') calls.
RECURSIVE DownTimes(_, _)
DownTimes(s, k) == IF k = 0 THEN s ELSE DownTimes(Navigated(s, "down"), k - 1)

\* C19 (as claimed): with n = results.length > 0, 'down' sets selectedIndex
\* to (selectedIndex + 1) mod n and 'up' to (selectedIndex - 1) mod n, so
\* 'down' then 'up' restores selectedIndex and so do n 'down' steps; with
\* empty results nothing changes; no other field is ever changed.
C19_NavigationCircular ==
    [][ \A d \in {"up", "down"} :
          NavigateSelection(d) =>
            LET n == Len(state.results)
                i == state.selectedIndex
            IN
            /\ n = 0 => state' = state
            /\ state' = [state EXCEPT !.selectedIndex = state'.selectedIndex]
            /\ n > 0 =>
                  /\ d = "down" => state'.selectedIndex = (i + 1) % n
                  /\ d = "up"   => state'.selectedIndex = (i - 1) % n
                  /\ Navigated(Navigated(state, "down"), "up").selectedIndex = i
                  /\ DownTimes(state, n).selectedIndex = i ]_vars

\* The answer that arrives belongs to a loadMoreResults fetch issued while a
\* generation older than the current one was the newest.
FromEarlierGeneration(f) == f.gen < requestId

\* C20 (as claimed): at the start of every executeSearch call currentOffset
\* is reset to 0 and allHistoricalResults to the empty list, so no
\* historical page accumulated by an earlier generation is ever merged into
\* the new generation's results.
C20_FreshAccumulation ==
    [][ /\ (\E o \in SearchOptionSets : ExecuteSearch(o)) =>
              /\ state'.currentOffset = 0
              /\ state'.allHistoricalResults = <<>>
        /\ \A f \in more :
              (FromEarlierGeneration(f) /\ MoreDone(f)) =>
                /\ state'.results = state.results
                /\ state'.allHistoricalResults = state.allHistoricalResults
      ]_vars

\* results has no historical result (batchId) before a local one.
LocalBeforeHistorical(rs) ==
    \A i, j \in 1..Len(rs) :
        (i < j /\ rs[j].batchId = 0) => rs[i].batchId = 0

\* C21 (as claimed): every local result precedes every historical result in
\* results, and a page added by loadMoreResults is put behind everything
\* that was in results before it, the pages following one another in the
\* order in which they were fetched.
C21_DisplayOrdered ==
    [][ /\ LocalBeforeHistorical(state'.results)
        /\ \A f \in more :
              PageSettled(f, "ok") =>
                /\ Len(state'.results) >= Len(state.results)
                /\ SubSeq(state'.results, 1, Len(state.results)) = state.results
                /\ state'.results # state.results => ~f.overtaken ]_vars

\* C29: requestId never decreases; an executeSearch call that starts a
\* search takes an id greater than every id taken before, one that no
\* generation was started under.
C29_RequestIdMonotonic ==
    [][ /\ requestId' >= requestId
        /\ \A o \in SearchOptionSets :
              (ExecuteSearch(o) /\ ~NoSearchNeeded) =>
                 /\ requestId' > requestId
                 /\ \A g \in Gens : calls[g].pc # "none" => g < requestId'
                 /\ calls[requestId'].pc = "none"
                 /\ calls'[requestId'].pc = "awaitLocal" ]_vars

\* Reached: a second generation was started, after clear(), while the first
\* one keeps its own id.
C29_Witness ==
    /\ requestId = 2
    /\ calls[1].pc # "none"
    /\ calls[2].pc = "awaitLocal"
    /\ aborted = {1}

\* ------------------------------------------------------- the chip editor
\* The text nodes and chips of the surface in document order, those inside
\* other elements included.
Leaves(ns) ==
    LET F[i \in 0..Len(ns)] ==
            IF i = 0 THEN <<>>
            ELSE IF ns[i].kind = "element" THEN F[i-1] \o ns[i].children
            ELSE Append(F[i-1], ns[i])
    IN F[Len(ns)]

\* The canonical text of a surface: its text spans and, for every chip, the
\* chip's token, in surface order.
CanonicalText(ns) ==
    LET ls == Leaves(ns)
        F[i \in 0..Len(ls)] ==
            IF i = 0 THEN ""
            ELSE F[i-1] \o (IF ls[i].kind = "chip" THEN ls[i].filter
                            ELSE ls[i].text)
    IN F[Len(ls)]

CurrentContext == detectFilterContext(getText(chipService))

\* sub occurs in text.
Contains(text, sub) ==
    \E i \in 1..(Len(text) - Len(sub) + 1) :
        SubSeq(text, i, i + Len(sub) - 1) = sub

\* The canonical token of a filter: type:value, the value in double quotes
\* exactly when it contains whitespace.
CanonicalToken(type, value) ==
    type \o ":"
    \o (IF \E i \in 1..Len(value) : Char(value, i) \in Whitespace
        THEN "\"" \o value \o "\""
        ELSE value)

\* The text with the span the context matched replaced by new.
SpanReplaced(text, context, new) ==
    substring(text, 0, context.startIndex) \o new
    \o substring(text, context.startIndex + Len(context.fullMatch), Len(text))

\* The chips of a surface, in surface order.
Chips(ns) == SelectSeq(Leaves(ns), LAMBDA n : n.kind = "chip")

\* C22: after a value suggestion is applied on a context of a known filter
\* type, getText() contains the canonical token, and parseInput(getText())
\* yields a filter with the type and value recorded in appliedFilters,
\* whatever chips the surface held before.
C22_RoundTrip ==
    [][ \A suggestion \in getSuggestions(CurrentContext) :
          ( /\ chipService.attached
            /\ ~suggestion.isFilterType
            /\ CurrentContext.type \in FilterTypes
            /\ ApplyFilterSuggestion(suggestion, CurrentContext) )
          => LET token == CanonicalToken(CurrentContext.type, suggestion.value)
                 parsed == parseInput(Tokens(getText(chipService'))).filters
                 recorded == getAppliedFilters(chipService')
             IN /\ Contains(getText(chipService'), token)
                /\ \E i \in 1..Len(recorded) :
                      /\ recorded[i].type = CurrentContext.type
                      /\ recorded[i].value = suggestion.value
                      /\ \E j \in 1..Len(parsed) :
                            /\ parsed[j].type = recorded[i].type
                            /\ parsed[j].value = recorded[i].value ]_vars

\* C23: a value suggestion replaces exactly the matched span of the
\* canonical text by one chip carrying the canonical token followed by one
\* space, and records {type, value, display, isValid: true} in
\* appliedFilters under that token.
C23_ValueSuggestion ==
    [][ \A suggestion \in getSuggestions(CurrentContext) :
          ( /\ chipService.attached
            /\ ~suggestion.isFilterType
            /\ CurrentContext.type \in FilterTypes
            /\ ApplyFilterSuggestion(suggestion, CurrentContext) )
          => LET token == CanonicalToken(CurrentContext.type, suggestion.value)
                 before == Chips(chipService.childNodes)
                 after == Chips(chipService'.childNodes)
             IN /\ getText(chipService') =
                      SpanReplaced(getText(chipService), CurrentContext,
                                   token \o " ")
                /\ Len(after) = Len(before) + 1
                /\ \E k \in 1..Len(after) :
                      /\ after[k].filter = token
                      /\ Without(after, k) = before
                /\ \E i \in 1..Len(chipService'.appliedFilters) :
                      chipService'.appliedFilters[i] =
                          [key |-> token,
                           value |-> [type |-> CurrentContext.type,
                                      value |-> suggestion.value,
                                      display |-> DisplayOf(suggestion),
                                      isValid |-> TRUE]] ]_vars

\* The number of characters of canonical text in front of the caret.
CaretOffset(c) ==
    LET sel == c.selection
        front == IF sel.child > 0
                 THEN SubSeq(c.childNodes, 1, sel.node - 1)
                      \o SubSeq(c.childNodes[sel.node].children, 1, sel.child - 1)
                 ELSE SubSeq(c.childNodes, 1, sel.node - 1)
    IN Len(CanonicalText(front)) + sel.offset

\* The range is a caret inside a text span.
InTextSpan(c) ==
    /\ c.selection.node > 0
    /\ c.selection.collapsed
    /\ (IF c.selection.child > 0
        THEN c.childNodes[c.selection.node].children[c.selection.child]
        ELSE c.childNodes[c.selection.node]).kind = "text"

\* C24: a filter-type suggestion replaces the matched span by the literal
\* filter-name text, creates no chip, leaves appliedFilters as they are and
\* leaves the cursor right behind the inserted text.
C24_FilterTypeSuggestion ==
    [][ \A suggestion \in getSuggestions(CurrentContext) :
          ( /\ chipService.attached
            /\ suggestion.isFilterType
            /\ ApplyFilterSuggestion(suggestion, CurrentContext) )
          => /\ getText(chipService') =
                   SpanReplaced(getText(chipService), CurrentContext,
                                suggestion.value)
             /\ Len(Chips(chipService'.childNodes))
                   <= Len(Chips(chipService.childNodes))
             /\ chipService'.appliedFilters = chipService.appliedFilters
             /\ InTextSpan(chipService')
             /\ CaretOffset(chipService') =
                   CurrentContext.startIndex + Len(suggestion.value) ]_vars

\* The node the range r starts in, among the child nodes ns.
Container(ns, r) ==
    IF r.child > 0 THEN ns[r.node].children[r.child] ELSE ns[r.node]

\* The siblings in front of the node the range r starts in.
SiblingsBefore(ns, r) ==
    IF r.child > 0 THEN SubSeq(ns[r.node].children, 1, r.child - 1)
    ELSE SubSeq(ns, 1, r.node - 1)

\* The cursor is collapsed at offset 0 of a text span whose immediately
\* preceding sibling is a chip, in the element c is attached to.
BehindChip(c, r) ==
    /\ c.attached
    /\ r.node > 0
    /\ r.collapsed
    /\ r.offset = 0
    /\ Container(c.childNodes, r).kind = "text"
    /\ SiblingsBefore(c.childNodes, r) # <<>>
    /\ LET before == SiblingsBefore(c.childNodes, r)
       IN before[Len(before)].kind = "chip"

\* The chip in front of the cursor.
ChipBefore(c, r) ==
    LET before == SiblingsBefore(c.childNodes, r)
    IN before[Len(before)]

\* The entries of a map whose key is not key.
EntriesBut(m, key) == SelectSeq(m, LAMBDA e : e.key # key)

\* shorter is text with one occurrence of token taken out.
TokenRemoved(text, token, shorter) ==
    \E i \in 0..(Len(text) - Len(token)) :
        /\ SubSeq(text, i + 1, i + Len(token)) = token
        /\ shorter = SubSeq(text, 1, i) \o SubSeq(text, i + Len(token) + 1, Len(text))

C26_NoDeletionElsewhere ==
    [][ \A r \in Ranges(chipService.childNodes) :
          (~BehindChip(chipService, r) /\ HandleChipDeletion(r)) =>
             /\ ~handleBackspaceChipDeletion(
                     [chipService EXCEPT !.selection = r]).deleted
             /\ chipService'.childNodes = chipService.childNodes
             /\ chipService'.appliedFilters = chipService.appliedFilters
             /\ state' = state ]_vars

\* Reached: handleChipDeletion was called on a surface that holds a chip
\* with its filter active, and nothing was deleted: chip, appliedFilters
\* entry and filter are all still there.
C26_Witness ==
    /\ lastOp = "handleChipDeletion"
    /\ chipService.attached
    /\ Len(Chips(chipService.childNodes)) = 1
    /\ Len(chipService.appliedFilters) = 1
    /\ Len(state.filters) = 1
    /\ state.filters[1].isValid
    /\ chipService.appliedFilters[1].key = "category:\"us news\""

\* The filter f is among filters, by type and value.
HasFilter(filters, type, value) ==
    \E i \in 1..Len(filters) : filters[i].type = type /\ filters[i].value = value

\* C27: when handleChipDeletion deletes a chip, state.filters afterwards
\* does not contain the deleted chip's filter and contains every other
\* filter applied through applyFilterSuggestion and not deleted.
C27_OtherFiltersKept ==
    [][ \A r \in Ranges(chipService.childNodes) :
          (BehindChip(chipService, r) /\ HandleChipDeletion(r)) =>
             LET token == ChipBefore(chipService, r).filter
                 active == getAppliedFilters(chipService)
             IN /\ \A i \in 1..Len(state'.filters) :
                      CanonicalToken(state'.filters[i].type,
                                     state'.filters[i].value) # token
                /\ \A i \in 1..Len(active) :
                      CanonicalToken(active[i].type, active[i].value) # token
                      => HasFilter(state'.filters, active[i].type,
                                   active[i].value) ]_vars

\* C30: state.filters never holds two filters with the same (type, value).
C30_FiltersUnique ==
    \A i, j \in 1..Len(state.filters) :
        ( /\ state.filters[i].type = state.filters[j].type
          /\ state.filters[i].value = state.filters[j].value ) => i = j

\* C33: while the local search of the current generation is pending and
\* the generation was not cancelled, isLoading is true; the settling of an
\* earlier executeSearch call does not turn it off.
C33_LoadingWhileLocalPending ==
    \A g \in Gens :
        (IsCurrent(g) /\ abortController = g /\ calls[g].pc = "awaitLocal")
            => state.isLoading

\* The current generation still has a promise to settle: its historical
\* completion, if there is to be one, has not been applied.
Unfinished(cs, g) ==
    g > 0 /\ (cs[g].pc = "awaitLocal" \/ cs[g].hist = "pending")

\* C35: from the start of a generation until its own historical completion
\* is applied hasMore is false, and loadMoreResults called in between
\* issues no fetch.
C35_NoStaleHasMore ==
    [][ /\ Unfinished(calls', requestId') => ~state'.hasMore
        /\ (Unfinished(calls, requestId) /\ LoadMoreResults)
              => moreIssued' = moreIssued ]_vars

\* C39: at most one loadMoreResults fetch is outstanding (issued and not yet
\* completed, by an answer or by an error), and isLoadingMore is true
\* exactly while one is.
C39_OneLoadMoreAtATime ==
    /\ Cardinality(more) <= 1
    /\ state.isLoadingMore <=> more # {}

\* C32: after applyFilterSuggestion, in either branch, and after a
\* handleBackspaceChipDeletion that deleted a chip, the cursor is a caret
\* inside a text span, never inside a chip.
C32_CursorInTextSpan ==
    [][ /\ \A suggestion \in getSuggestions(CurrentContext) :
              ( /\ chipService.attached
                /\ ApplyFilterSuggestion(suggestion, CurrentContext) )
              => InTextSpan(chipService')
        /\ \A r \in Ranges(chipService.childNodes) :
              (BehindChip(chipService, r) /\ HandleChipDeletion(r))
              => InTextSpan(chipService') ]_vars

\* Reached: a value suggestion was applied behind typed text, and the caret
\* is at the start of the space that follows the new chip.
C32_Witness ==
    /\ chipService.attached
    /\ Len(chipService.childNodes) = 3
    /\ chipService.childNodes[1] = TextNode("kite news ")
    /\ chipService.childNodes[2].kind = "chip"
    /\ chipService.childNodes[3] = TextNode(" ")
    /\ chipService.selection = Range(3, 0, 0, TRUE)
    /\ InTextSpan(chipService)

\* The keys of a map.
Keys(m) == {m[i].key : i \in 1..Len(m)}

\* C37: on an attached surface the keys of appliedFilters are exactly the
\* canonical tokens of the chips the surface holds.
C37_TrackedAreChips ==
    chipService.attached =>
        Keys(chipService.appliedFilters)
            = {Chips(chipService.childNodes)[k].filter :
                   k \in 1..Len(Chips(chipService.childNodes))}

\* The last n characters of s.
Suffix(s, n) == substring(s, Len(s) - n, Len(s))

\* C38: applyFilterSuggestion, in either branch, changes only the matched
\* span: every chip of the surface is still a chip afterwards, and the
\* canonical text in front of the span and behind it is as it was.
C38_OnlySpanChanged ==
    [][ \A suggestion \in getSuggestions(CurrentContext) :
          ( /\ chipService.attached
            /\ ApplyFilterSuggestion(suggestion, CurrentContext) )
          => LET before == Chips(chipService.childNodes)
                 after == Chips(chipService'.childNodes)
                 text == getText(chipService)
                 from == CurrentContext.startIndex
                 behind == Len(text) - (from + Len(CurrentContext.fullMatch))
             IN /\ \A k \in 1..Len(before) :
                      \E j \in 1..Len(after) : after[j] = before[k]
                /\ substring(getText(chipService'), 0, from)
                      = substring(text, 0, from)
                /\ Suffix(getText(chipService'), behind)
                      = Suffix(text, behind) ]_vars

\* C34: a page that loadMoreResults appends to the results of the current
\* generation was fetched with the query and the filters that generation
\* searched with, whatever was typed in between.
C34_PageMatchesSearch ==
    [][ \A f \in more :
          ( /\ requestId > 0
            /\ f.n = moreIssued
            /\ f.gen = requestId
            /\ ~f.superseded
            /\ calls[requestId].pc = "settled"
            /\ MoreSettled(f, "ok")
            /\ state'.results # state.results )
          => \E search \in Notes("search") : \E fetch \in Notes("fetch") :
                /\ fetch.query = search.query
                /\ fetch.filters = search.filters ]_vars

\* C36: the historical pages of one generation follow one another without a
\* gap or an overlap: the first page is asked for at offset 0 with the page
\* size L, and the first loadMoreResults page that lands is asked for at
\* offset L with the same page size, whatever options executeSearch had.
C36_PagesContiguous ==
    [][ \A f \in more :
          ( /\ requestId > 0
            /\ f.n = moreIssued
            /\ f.gen = requestId
            /\ ~f.superseded
            /\ calls[requestId].pc = "settled"
            /\ state.currentOffset = 0
            /\ MoreSettled(f, "ok") )
          => \E search \in Notes("search") : \E fetch \in Notes("fetch") :
                /\ search.offset = 0
                /\ fetch.limit = search.limit
                /\ fetch.offset = search.offset + search.limit ]_vars

\* The completion handler of generation g runs with its guard passing, which
\* is when it invokes onLocalComplete or onHistoricalComplete.
ProgressCallbackOf(g) ==
    /\ IsCurrent(g)
    /\ \/ \E L \in LocalResultSets : LocalAnswered(g, L)
       \/ HistoricalSettled(g, "ok")

\* C40: once destroy() has returned, nothing that was started before it
\* writes the search state or invokes a callback when it completes: neither
\* a promise of an executeSearch call nor the fetch of a loadMoreResults
\* call.
C40_SilentAfterDestroy ==
    [][ /\ \A g \in destroyedGens :
             /\ CompletionOf(g) => state' = state
             /\ ~ProgressCallbackOf(g)
        /\ \A f \in more :
             (f.n \in destroyedFetches /\ MoreDone(f))
                 => /\ state' = state
                    /\ ~MoreSettled(f, "ok") ]_vars

\* Generation g was cancelled while it had a promise to settle, and the
\* step settles the last of its promises.
CancelledSettles(g) ==
    /\ g \in aborted
    /\ calls[g].pc \notin {"none", "settled"}
    /\ calls'[g].pc = "settled"

\* C31: by the time a generation that was cancelled before it settled (by a
\* later executeSearch, by clear() or by destroy()) has settled, the
\* onSearchCancelled callback of its executeSearch call has been invoked; and
\* the callback is invoked for cancelled generations only.
C31_CancelledIsReported ==
    [][ /\ \A g \in Gens :
             CancelledSettles(g) => g \in onSearchCancelledFor'
        /\ onSearchCancelledFor' \subseteq aborted' ]_vars

====
